---- MODULE Spec2Model ----
(***************************************************************************)
(* shadowplay.rs: the screen recorder's colour converters                  *)
(* (src/src/convert.rs) and its capture -> convert -> encode -> mux loop   *)
(* with its stop flag (src/src/main.rs).                                   *)
(*                                                                         *)
(* Two specifications share the module:                                    *)
(*   ConvSpec  one call of a converter on an input drawn from Inputs;      *)
(*   Spec      main(): start-up, the observer threads, the loop, the       *)
(*             drain and the finalize (FairSpec adds the scheduling).      *)
(***************************************************************************)
EXTENDS Integers, Sequences, FiniteSets, TLC

VARIABLES
  \* ---- one converter call (ConvSpec)
  cwidth,      \* the call's width argument
  cheight,     \* the call's height argument
  csrc,        \* the call's src argument: a function 0..n-1 -> byte
  cfn,         \* "none" before the call, else the converter called
  cstatus,     \* "idle", "returned" or "panicked"
  cyuv,        \* the returned buffer: a function 0..n-1 -> byte
  cwrites,     \* how often the call stored into each index of the buffer
  \* ---- main() and its threads (Spec)
  args,        \* the command line: [time, fps], each None or a number
  pc,          \* where the main thread is
  stop,        \* the Arc<AtomicBool> shared with the observer threads
  hotkey,      \* the hotkey thread: "unspawned", "spawned", "listening", "dead"
  prompt,      \* the prompt thread: "unspawned", "waiting", "done"
  clock,       \* the monotonic clock, in ticks; MaxClock stands for "or later"
  start,       \* main's `start` instant
  now,         \* the loop's `now` instant
  wake,        \* the instant thread::sleep returns at the earliest
  size,        \* <<width, height>> of the capturer
  frame,       \* the frame capturer.frame() returned, or None
  encBuf,      \* packets the encoder holds back (its lookahead)
  encoded,     \* packets a call returned that are not yet forwarded
  log,         \* every encoder and muxer call so far, in call order
  \* ---- history of the run, read by the properties only
  stored,      \* some thread has executed stop.store(true)
  loaded,      \* what the last stop.load of the loop returned
  yielded,     \* every packet the encoder has returned, in order
  lastFrame,   \* how the last capturer.frame() call ended
  fatal,       \* the fatal failure of the run, if any
  leftBy,      \* why the loop was left
  failed,      \* the resource main could not acquire at start-up, if any
  afterStop    \* frame requests and encode calls made after the first store

convVars == <<cwidth, cheight, csrc, cfn, cstatus, cyuv, cwrites>>
threadVars == <<hotkey, prompt>>
timeVars == <<clock, start, now, wake>>
codecVars == <<encBuf, encoded, log, yielded>>
histVars == <<stored, loaded, lastFrame, fatal, leftBy, failed, afterStop>>
pipeVars == <<args, pc, stop, threadVars, timeVars, size, frame, codecVars, histVars>>
vars == <<convVars, pipeVars>>

----------------------------------------------------------------------------
(* Bounds of the converter inputs.                                         *)

\* widths and heights range over 1..MaxDim
MaxDim == 4
\* src lengths range over width*height*4 - MaxSlack .. width*height*4 + MaxSlack
MaxSlack == 5

(* Bounds of a run of main().                                              *)

\* the clock counts 0 .. MaxClock ticks and then stays: MaxClock is "or later"
MaxClock == 5
\* capturer.frame() returns at most MaxFrames frames
MaxFrames == 2
\* the scale of the clock: ticks in a second, and in a millisecond
TicksPerSec == 3
TicksPerMs == 2

\* Option<T>: None, or Some(x) holding x
None == <<>>
Some(x) == <<x>>
Unwrap(o) == o[1]

----------------------------------------------------------------------------
(* Rust arithmetic.                                                        *)

\* i32 `/`: the quotient rounded toward zero (the divisor is positive here)
DivFloor(a, b) == a \div b
DivTrunc(a, b) == IF a >= 0 THEN a \div b ELSE -((-a) \div b)

\* x.min(255).max(0) as u8
clamp_studio(x) ==
  LET lo == IF x < 235 THEN x ELSE 235
  IN  IF lo > 16 THEN lo ELSE 16
clamp(x) ==
  LET lo == IF x < 255 THEN x ELSE 255
  IN  IF lo > 0 THEN lo ELSE 0

\* vec![0; n]
ZeroVec(n) == [i \in 0 .. n - 1 |-> 0]

BufLen(buf) == Cardinality(DOMAIN buf)

----------------------------------------------------------------------------
(* argb_to_yuv420: one store per pixel into the Y plane, and for a pixel   *)
(* in an even row and column one store into U and one into V.  An index    *)
(* past the end of yuv panics.  array_chunks yields the whole 4-byte       *)
(* chunks of src and drops a remainder of 1 to 3 bytes.                    *)

Yuv420Init(width, height) ==
  LET frame_size == width * height
      u_size     == frame_size \div 4
  IN  [ yuv          |-> ZeroVec((frame_size * 3) \div 2),
        writes       |-> ZeroVec((frame_size * 3) \div 2),
        u_index      |-> frame_size,
        v_index      |-> frame_size + u_size,
        column_index |-> 0,
        row_index    |-> 0,
        panic        |-> FALSE ]

\* the three stores of the loop body, each with its own formula
Yuv420Y(r, g, b) == clamp(DivTrunc(66 * r + 129 * g + 25 * b + 128, 256) + 16)
Yuv420U(r, g, b) == clamp(DivTrunc(-38 * r - 74 * g + 112 * b + 128, 256) + 128)
Yuv420V(r, g, b) == clamp(DivTrunc(112 * r - 94 * g - 18 * b + 128, 256) + 128)

\* the pixels that get a chroma sample
AnchorColumnOnly(column_index, row_index) == column_index % 2 = 0
Yuv420Anchor(column_index, row_index) ==
  column_index % 2 = 0 /\ row_index % 2 = 0

Yuv420Body(width, src, st, y_index) ==
  LET b == src[4 * y_index]
      g == src[4 * y_index + 1]
      r == src[4 * y_index + 2]
      n == BufLen(st.yuv)
      anchor == Yuv420Anchor(st.column_index, st.row_index)
      yv == Yuv420Y(r, g, b)
      uv == Yuv420U(r, g, b)
      vv == Yuv420V(r, g, b)
      col1 == st.column_index + 1
  IN  IF y_index >= n THEN [st EXCEPT !.panic = TRUE]
      ELSE IF anchor /\ (st.u_index >= n \/ st.v_index >= n)
      THEN [st EXCEPT !.panic = TRUE]
      ELSE
        LET y1 == [st.yuv EXCEPT ![y_index] = yv]
            w1 == [st.writes EXCEPT ![y_index] = @ + 1]
            y2 == IF anchor THEN [y1 EXCEPT ![st.u_index] = uv] ELSE y1
            w2 == IF anchor THEN [w1 EXCEPT ![st.u_index] = @ + 1] ELSE w1
            y3 == IF anchor THEN [y2 EXCEPT ![st.v_index] = vv] ELSE y2
            w3 == IF anchor THEN [w2 EXCEPT ![st.v_index] = @ + 1] ELSE w2
        IN  [ yuv          |-> y3,
              writes       |-> w3,
              u_index      |-> IF anchor THEN st.u_index + 1 ELSE st.u_index,
              v_index      |-> IF anchor THEN st.v_index + 1 ELSE st.v_index,
              column_index |-> IF col1 = width THEN 0 ELSE col1,
              row_index    |-> IF col1 = width THEN st.row_index + 1
                                               ELSE st.row_index,
              panic        |-> FALSE ]

RECURSIVE Yuv420Loop(_, _, _, _)
Yuv420Loop(width, src, st, y_index) ==
  IF st.panic \/ y_index >= BufLen(src) \div 4 THEN st
  ELSE Yuv420Loop(width, src, Yuv420Body(width, src, st, y_index), y_index + 1)

argb_to_yuv420(width, height, src) ==
  Yuv420Loop(width, src, Yuv420Init(width, height), 0)

----------------------------------------------------------------------------
(* argb_to_yuv420_with_subsampling: indexes src by pixel coordinates, so   *)
(* a read past the end of src panics; the chroma of an even (x, y) is the  *)
(* mean of the four per-pixel values of its 2x2 block.                     *)

\* get_pixel_idx reads src[idx + 2] first: it panics iff idx + 2 is out of range
PixelInRange(src, idx) == idx + 2 < BufLen(src)
get_pixel_idx(src, idx) == <<src[idx + 2], src[idx + 1], src[idx]>>
PixelIdxOfAnchor(width, x, y) == ((x - (x % 2)) + (y - (y % 2)) * width) * 4
PixelIdx(width, x, y) == (x + y * width) * 4

calc_y(p) == clamp(DivTrunc(66 * p[1] + 129 * p[2] + 25 * p[3] + 128, 256) + 16)
calc_u_typo(p) == DivTrunc(-38 * p[1] - 84 * p[2] + 112 * p[3] + 128, 256) + 128
calc_u(p) == DivTrunc(-38 * p[1] - 74 * p[2] + 112 * p[3] + 128, 256) + 128
calc_v(p) == DivTrunc(112 * p[1] - 94 * p[2] - 18 * p[3] + 128, 256) + 128

SubsamplingInitOversized(width, height) ==
  LET frame_size == width * height
      u_size     == frame_size \div 4
  IN  [ yuv     |-> ZeroVec(frame_size * 2),
        writes  |-> ZeroVec(frame_size * 2),
        y_index |-> 0,
        u_index |-> frame_size,
        v_index |-> frame_size + u_size,
        panic   |-> FALSE ]

SubsamplingInit(width, height) ==
  LET frame_size == width * height
      u_size     == frame_size \div 4
  IN  [ yuv     |-> ZeroVec((frame_size * 3) \div 2),
        writes  |-> ZeroVec((frame_size * 3) \div 2),
        y_index |-> 0,
        u_index |-> frame_size,
        v_index |-> frame_size + u_size,
        panic   |-> FALSE ]

SubsamplingBody(width, src, st, x, y) ==
  LET n      == BufLen(st.yuv)
      anchor == x % 2 = 0 /\ y % 2 = 0
      block  == << PixelIdx(width, x, y),     PixelIdx(width, x + 1, y),
                   PixelIdx(width, x, y + 1), PixelIdx(width, x + 1, y + 1) >>
  IN  IF ~PixelInRange(src, block[1]) \/ st.y_index >= n
      THEN [st EXCEPT !.panic = TRUE]
      ELSE IF anchor /\ ( (\E k \in 2 .. 4 : ~PixelInRange(src, block[k]))
                          \/ st.u_index >= n \/ st.v_index >= n )
      THEN [st EXCEPT !.panic = TRUE]
      ELSE
        LET pixel == get_pixel_idx(src, block[1])
            y1 == [st.yuv EXCEPT ![st.y_index] = calc_y(pixel)]
            w1 == [st.writes EXCEPT ![st.y_index] = @ + 1]
        IN  IF ~anchor
            THEN [st EXCEPT !.yuv = y1, !.writes = w1, !.y_index = @ + 1]
            ELSE
              LET sample == [k \in 1 .. 4 |-> get_pixel_idx(src, block[k])]
                  u == DivTrunc(calc_u(sample[1]) + calc_u(sample[2])
                                + calc_u(sample[3]) + calc_u(sample[4]), 4)
                  v == DivTrunc(calc_v(sample[1]) + calc_v(sample[2])
                                + calc_v(sample[3]) + calc_v(sample[4]), 4)
                  y2 == [y1 EXCEPT ![st.u_index] = clamp(u)]
                  w2 == [w1 EXCEPT ![st.u_index] = @ + 1]
                  y3 == [y2 EXCEPT ![st.v_index] = clamp(v)]
                  w3 == [w2 EXCEPT ![st.v_index] = @ + 1]
              IN  [ yuv     |-> y3,
                    writes  |-> w3,
                    y_index |-> st.y_index + 1,
                    u_index |-> st.u_index + 1,
                    v_index |-> st.v_index + 1,
                    panic   |-> FALSE ]

\* the two nested loops, row by row: i counts the (x, y) visited so far
RECURSIVE SubsamplingLoop(_, _, _, _, _)
SubsamplingLoop(width, height, src, st, i) ==
  IF st.panic \/ i >= width * height THEN st
  ELSE SubsamplingLoop(width, height, src,
         SubsamplingBody(width, src, st, i % width, i \div width), i + 1)

argb_to_yuv420_with_subsampling(width, height, src) ==
  SubsamplingLoop(width, height, src, SubsamplingInit(width, height), 0)

----------------------------------------------------------------------------
(* argb_to_yuv444: three stores per pixel, one into each full plane.       *)

Yuv444Init(width, height) ==
  LET frame_size == width * height
  IN  [ yuv      |-> ZeroVec(frame_size * 3),
        writes   |-> ZeroVec(frame_size * 3),
        u_offset |-> frame_size,
        v_offset |-> frame_size + frame_size,
        panic    |-> FALSE ]

Yuv444Y(r, g, b) == clamp(DivTrunc(66 * r + 129 * g + 25 * b + 128, 256) + 16)
Yuv444U_typo(r, g, b) == clamp(DivTrunc(-38 * r - 74 * g + 122 * b + 128, 256) + 128)
Yuv444U(r, g, b) == clamp(DivTrunc(-38 * r - 74 * g + 112 * b + 128, 256) + 128)
Yuv444V(r, g, b) == clamp(DivTrunc(112 * r - 94 * g - 18 * b + 128, 256) + 128)

Yuv444Body(src, st, y_index) ==
  LET b == src[4 * y_index]
      g == src[4 * y_index + 1]
      r == src[4 * y_index + 2]
      n == BufLen(st.yuv)
      yv == Yuv444Y(r, g, b)
      uv == Yuv444U(r, g, b)
      vv == Yuv444V(r, g, b)
  IN  IF y_index >= n \/ y_index + st.u_offset >= n \/ y_index + st.v_offset >= n
      THEN [st EXCEPT !.panic = TRUE]
      ELSE [st EXCEPT
              !.yuv = [@ EXCEPT ![y_index] = yv,
                                ![y_index + st.u_offset] = uv,
                                ![y_index + st.v_offset] = vv],
              !.writes = [@ EXCEPT ![y_index] = @ + 1,
                                   ![y_index + st.u_offset] = @ + 1,
                                   ![y_index + st.v_offset] = @ + 1]]

RECURSIVE Yuv444Loop(_, _, _)
Yuv444Loop(src, st, y_index) ==
  IF st.panic \/ y_index >= BufLen(src) \div 4 THEN st
  ELSE Yuv444Loop(src, Yuv444Body(src, st, y_index), y_index + 1)

argb_to_yuv444(width, height, src) ==
  Yuv444Loop(src, Yuv444Init(width, height), 0)

----------------------------------------------------------------------------
(* The inputs of a converter call.  A pixel is its four bytes in memory    *)
(* order: blue, green, red, alpha.                                         *)

Palette ==
  << <<0, 0, 255, 255>>,      \* red
     <<0, 0, 0, 0>>,          \* black
     <<255, 255, 255, 255>>,  \* white
     <<0, 255, 0, 17>>,       \* green
     <<255, 0, 0, 255>>,      \* blue
     <<10, 200, 90, 0>> >>    \* a mixed colour

\* the levels of the colour grid and of the gray ramp
Levels == {0, 1, 127, 128, 254, 255}
Grays  == 0 .. 255

\* a frame of n bytes whose pixel p has colour Palette[((p * m + s) % N) + 1]
PatternSrc(n, m, s) ==
  [i \in 0 .. n - 1 |->
     Palette[(((i \div 4) * m + s) % Len(Palette)) + 1][(i % 4) + 1]]

\* a frame of n bytes of one colour
UniformSrc(n, px) == [i \in 0 .. n - 1 |-> px[(i % 4) + 1]]

SrcLens(width, height) ==
  { n \in (width * height * 4 - MaxSlack) .. (width * height * 4 + MaxSlack) :
      /\ n >= 0
      /\ \/ n = width * height * 4
         \/ n % 4 \in {0, 3} }

PatternInputs ==
  { [width |-> w, height |-> h, src |-> PatternSrc(n, m, s)] :
      <<w, h, n, m, s>> \in
        { t \in (1 .. MaxDim) \X (1 .. MaxDim) \X (0 .. MaxDim * MaxDim * 4 + MaxSlack)
                \X {0, 1} \X (0 .. Len(Palette) - 1) :
            t[3] \in SrcLens(t[1], t[2]) } }

\* a frame of w x h pixels whose 2x2 blocks are each of one colour, the j-th
\* block (row-major) of colour Palette[((j + s) % N) + 1]
BlockSrc(w, h, s) ==
  [i \in 0 .. w * h * 4 - 1 |->
     LET p == i \div 4
         j == ((p \div w) \div 2) * (w \div 2) + (p % w) \div 2
     IN  Palette[((j + s) % Len(Palette)) + 1][(i % 4) + 1]]

BlockInputs ==
  { [width |-> t[1], height |-> t[2], src |-> BlockSrc(t[1], t[2], t[3])] :
      t \in {2, 4} \X {2, 4} \X (0 .. Len(Palette) - 1) }

GridInputs ==
  { [width |-> 2, height |-> 2, src |-> UniformSrc(16, <<b, g, r, 255>>)] :
      <<b, g, r>> \in Levels \X Levels \X Levels }

GrayInputs ==
  { [width |-> 2, height |-> 2, src |-> UniformSrc(16, <<k, k, k, 255>>)] :
      k \in Grays }

Inputs == PatternInputs \cup BlockInputs \cup GridInputs \cup GrayInputs

----------------------------------------------------------------------------
(* ConvSpec: one call of one converter.                                    *)

ConvIdle ==
  /\ cfn = "none"
  /\ cstatus = "idle"
  /\ cyuv = ZeroVec(0)
  /\ cwrites = ZeroVec(0)

\* main() before its first statement
NotStarted ==
  /\ pc = "start"
  /\ stop = FALSE
  /\ hotkey = "unspawned"
  /\ prompt = "unspawned"
  /\ clock = 0 /\ start = 0 /\ now = 0 /\ wake = 0
  /\ size = <<0, 0>>
  /\ frame = None
  /\ encBuf = <<>> /\ encoded = <<>> /\ log = <<>> /\ yielded = <<>>
  /\ stored = FALSE
  /\ loaded = "none"
  /\ lastFrame = "none"
  /\ fatal = "none"
  /\ leftBy = "none"
  /\ failed = "none"
  /\ afterStop = [requests |-> 0, encodes |-> 0]

ConvInit ==
  /\ \E inp \in Inputs :
       /\ cwidth = inp.width
       /\ cheight = inp.height
       /\ csrc = inp.src
  /\ ConvIdle
  /\ args = [time |-> None, fps |-> None]
  /\ NotStarted

\* the call returns st.yuv, or unwinds with a panic and returns nothing
Return(fn, st) ==
  /\ cfn' = fn
  /\ cstatus' = IF st.panic THEN "panicked" ELSE "returned"
  /\ cyuv' = IF st.panic THEN ZeroVec(0) ELSE st.yuv
  /\ cwrites' = IF st.panic THEN ZeroVec(0) ELSE st.writes
  /\ UNCHANGED <<cwidth, cheight, csrc>>
  /\ UNCHANGED pipeVars

CallYuv420 ==
  /\ cstatus = "idle"
  /\ Return("argb_to_yuv420", argb_to_yuv420(cwidth, cheight, csrc))

CallSubsampling ==
  /\ cstatus = "idle"
  /\ Return("argb_to_yuv420_with_subsampling",
            argb_to_yuv420_with_subsampling(cwidth, cheight, csrc))

CallYuv444 ==
  /\ cstatus = "idle"
  /\ Return("argb_to_yuv444", argb_to_yuv444(cwidth, cheight, csrc))

ConvNext == CallYuv420 \/ CallSubsampling \/ CallYuv444

ConvSpec == ConvInit /\ [][ConvNext]_vars

----------------------------------------------------------------------------
(* main(): the command line and the times derived from it.                 *)

ArgsSet == [time : {None, Some(1)}, fps : {None, Some(0), Some(1), Some(2)}]

\* args.time.map(Duration::from_secs)
max_time ==
  IF args.time = None THEN None ELSE Some(Unwrap(args.time) * TicksPerSec)

\* args.fps.map(|fps| Duration::from_nanos(1_000_000_000 / fps)); fps = 0 panics
seconds_per_frame ==
  IF args.fps = None THEN None ELSE Some(TicksPerSec \div Unwrap(args.fps))

\* the displays the capturer may be opened on, as <<width, height>>
DisplaySizes == { <<2, 2>> }

\* what capturer.frame() may hand out on a display of that size
FramesOf(sz) ==
  { UniformSrc(sz[1] * sz[2] * 4, Palette[1]),
    PatternSrc(sz[1] * sz[2] * 4, 1, 0) }

\* convert::argb_to_yuv420(width, height, &frame), the variant process_frame
\* calls, on each frame a display can hand out
ConvertFrame ==
  [sz \in DisplaySizes |->
     [f \in FramesOf(sz) |-> argb_to_yuv420(sz[1], sz[2], f)]]

\* the process is gone once main has returned or panicked
Alive == pc \notin {"finished", "exited", "panicked"}

Init ==
  /\ args \in ArgsSet
  /\ NotStarted
  /\ cwidth = 0 /\ cheight = 0 /\ csrc = ZeroVec(0)
  /\ ConvIdle

----------------------------------------------------------------------------
(* Starting: main up to the loop.                                          *)

\* get_display() gave None (no display), or get_output_file() gave None (the
\* user declined to overwrite the file): main returns
StartReturns ==
  /\ pc = "start"
  /\ \E r \in {"display", "output"} : failed' = r
  /\ pc' = "exited"
  /\ UNCHANGED <<convVars, args, stop, threadVars, timeVars, size, frame, codecVars,
                 stored, loaded, lastFrame, fatal, leftBy, afterStop>>

\* one of the expect()s of the set-up failed: Display::all, Capturer::new,
\* the open of the output file, mux::Segment::new or vpx_encode::Encoder::new;
\* the threads are spawned only after the last of them
StartPanicsAfterSpawn ==
  /\ pc = "start"
  /\ \E r \in {"display", "capturer", "output", "muxer", "encoder"} : failed' = r
  /\ hotkey' = "spawned"
  /\ prompt' = "waiting"
  /\ pc' = "panicked"
  /\ UNCHANGED <<convVars, args, stop, timeVars, size, frame, codecVars,
                 stored, loaded, lastFrame, fatal, leftBy, afterStop>>

StartPanics ==
  /\ pc = "start"
  /\ \E r \in {"display", "capturer", "output", "muxer", "encoder"} : failed' = r
  /\ pc' = "panicked"
  /\ UNCHANGED <<convVars, args, stop, threadVars, timeVars, size, frame, codecVars,
                 stored, loaded, lastFrame, fatal, leftBy, afterStop>>

\* everything was acquired: the flag is created false, both threads are
\* spawned, and the frame interval is computed
StartOk ==
  /\ pc = "start"
  /\ \E sz \in DisplaySizes : size' = sz
  /\ start' = clock
  /\ stop' = FALSE
  /\ hotkey' = "spawned"
  /\ prompt' = "waiting"
  /\ pc' = IF args.fps = Some(0) THEN "panicked" ELSE "check"
  /\ UNCHANGED <<convVars, args, clock, now, wake, frame, codecVars, histVars>>

----------------------------------------------------------------------------
(* The observer threads.                                                   *)

\* setup_hotkey: register_hotkey(..).unwrap(), then listen()
HotkeyRegisters ==
  /\ Alive /\ hotkey = "spawned"
  /\ hotkey' = "listening"
  /\ UNCHANGED <<convVars, args, pc, stop, prompt, timeVars, size, frame, codecVars, histVars>>

HotkeyRegisterFails ==
  /\ Alive /\ hotkey = "spawned"
  /\ hotkey' = "dead"
  /\ UNCHANGED <<convVars, args, pc, stop, prompt, timeVars, size, frame, codecVars, histVars>>

\* the callback, on every press: stop.store(true, Release)
HotkeyToggles ==
  /\ Alive /\ hotkey = "listening"
  /\ stop' = ~stop
  /\ stored' = TRUE
  /\ UNCHANGED <<convVars, args, pc, threadVars, timeVars, size, frame, codecVars,
                 loaded, lastFrame, fatal, leftBy, afterStop, failed>>

HotkeyPressed ==
  /\ Alive /\ hotkey = "listening"
  /\ stop' = TRUE
  /\ stored' = TRUE
  /\ UNCHANGED <<convVars, args, pc, threadVars, timeVars, size, frame, codecVars,
                 loaded, lastFrame, fatal, leftBy, afterStop, failed>>

\* quest::text() returned: stop.store(true, Release), and the thread ends
PromptAnswered ==
  /\ Alive /\ prompt = "waiting"
  /\ prompt' = "done"
  /\ stop' = TRUE
  /\ stored' = TRUE
  /\ UNCHANGED <<convVars, args, pc, hotkey, timeVars, size, frame, codecVars,
                 loaded, lastFrame, fatal, leftBy, afterStop, failed>>

\* time passes
Tick ==
  /\ Alive /\ pc # "start"
  /\ clock < MaxClock
  /\ clock' = clock + 1
  /\ UNCHANGED <<convVars, args, pc, stop, threadVars, start, now, wake, size, frame,
                 codecVars, histVars>>

----------------------------------------------------------------------------
(* Running: the loop.                                                      *)

\* a count that stops at 2: "more than one" is all the properties ask
Bump(n) == IF n < 2 THEN n + 1 ELSE n
CountIf(cond, n) == IF cond THEN Bump(n) ELSE n

\* while !stop.load(Acquire)
LoopNeverChecks ==
  /\ pc = "check"
  /\ loaded' = "false"
  /\ pc' = "time"
  /\ UNCHANGED <<convVars, args, stop, threadVars, timeVars, size, frame, codecVars,
                 stored, lastFrame, fatal, leftBy, afterStop, failed>>

LoopCheck ==
  /\ pc = "check"
  /\ loaded' = IF stop THEN "true" ELSE "false"
  /\ pc' = IF stop THEN "finish" ELSE "time"
  /\ leftBy' = IF stop THEN "stop" ELSE leftBy
  /\ UNCHANGED <<convVars, args, stop, threadVars, timeVars, size, frame, codecVars,
                 stored, lastFrame, fatal, afterStop, failed>>

\* let now = Instant::now(); let time = now - start;
\* if max_time.is_some_and(|d| time > d) { break; }
TimeCheckAtBound ==
  /\ pc = "time"
  /\ now' = clock
  /\ LET time == clock - start
         over == max_time # None /\ time >= Unwrap(max_time)
     IN  /\ pc' = IF over THEN "finish" ELSE "capture"
         /\ leftBy' = IF over THEN "time" ELSE leftBy
  /\ UNCHANGED <<convVars, args, stop, threadVars, clock, start, wake, size, frame,
                 codecVars, stored, loaded, lastFrame, fatal, afterStop, failed>>

TimeCheck ==
  /\ pc = "time"
  /\ now' = clock
  /\ LET time == clock - start
         over == max_time # None /\ time > Unwrap(max_time)
     IN  /\ pc' = IF over THEN "finish" ELSE "capture"
         /\ leftBy' = IF over THEN "time" ELSE leftBy
  /\ UNCHANGED <<convVars, args, stop, threadVars, clock, start, wake, size, frame,
                 codecVars, stored, loaded, lastFrame, fatal, afterStop, failed>>

\* the calls of the log
Calls(op) == SelectSeq(log, LAMBDA c : c.op = op)

Requested == [afterStop EXCEPT !.requests = CountIf(stored, @)]

\* capturer.frame() is Ok(frame)
CaptureFrame ==
  /\ pc = "capture"
  /\ Len(Calls("encode")) < MaxFrames
  /\ \E f \in FramesOf(size) : frame' = f
  /\ pc' = "process"
  /\ lastFrame' = "frame"
  /\ afterStop' = Requested
  /\ UNCHANGED <<convVars, args, stop, threadVars, timeVars, size, codecVars,
                 stored, loaded, fatal, leftBy, failed>>

\* Err(e) if e.kind() == WouldBlock => {}
WouldBlockBreaks ==
  /\ pc = "capture"
  /\ pc' = "finish"
  /\ lastFrame' = "would_block"
  /\ leftBy' = "error"
  /\ afterStop' = Requested
  /\ UNCHANGED <<convVars, args, stop, threadVars, timeVars, size, frame, codecVars,
                 stored, loaded, fatal, failed>>

CaptureWouldBlock ==
  /\ pc = "capture"
  /\ pc' = "pace"
  /\ lastFrame' = "would_block"
  /\ afterStop' = Requested
  /\ UNCHANGED <<convVars, args, stop, threadVars, timeVars, size, frame, codecVars,
                 stored, loaded, fatal, leftBy, failed>>

\* Err(e) => { println!("{e}"); break; }
CaptureError ==
  /\ pc = "capture"
  /\ pc' = "finish"
  /\ lastFrame' = "error"
  /\ fatal' = "source"
  /\ leftBy' = "error"
  /\ afterStop' = Requested
  /\ UNCHANGED <<convVars, args, stop, threadVars, timeVars, size, frame, codecVars,
                 stored, loaded, failed>>

\* time.as_millis() as i64
Millis(d) == d \div TicksPerMs

\* the encoder's packet for the n-th frame submitted
Packet(n, pts) == [id |-> n, pts |-> pts, key |-> (n = 1)]

\* vpx_encoder.encode(millis as i64, &yuv_frame, VPX_IMG_FMT_I444)
EncodeCall(pts, yuv) ==
  [op |-> "encode", pts |-> pts, len |-> BufLen(yuv), fmt |-> "I444"]

\* video_track.add_frame(data, pts as u64 * 1_000_000, key)
AddFrameCallMillis(pkt) ==
  [op |-> "add_frame", id |-> pkt.id, ts |-> pkt.pts, key |-> pkt.key]
AddFrameCall(pkt) ==
  [op |-> "add_frame", id |-> pkt.id, ts |-> pkt.pts * 1000000, key |-> pkt.key]

\* process_frame up to the encode call, which is Ok: the encoder takes the
\* frame and returns any number of the packets it holds, oldest first
ProcessFrame ==
  /\ pc = "process"
  /\ LET conv == ConvertFrame[size][frame]
         pts  == Millis(now - start)
         buf  == Append(encBuf, Packet(Len(Calls("encode")) + 1, pts))
     IN  IF conv.panic
         THEN /\ pc' = "panicked"
              /\ UNCHANGED <<codecVars, afterStop>>
         ELSE /\ pc' = "forward"
              /\ log' = Append(log, EncodeCall(pts, conv.yuv))
              /\ afterStop' = [afterStop EXCEPT !.encodes = CountIf(stored, @)]
              /\ \E k \in 0 .. Len(buf) :
                   /\ encoded' = SubSeq(buf, 1, k)
                   /\ encBuf' = SubSeq(buf, k + 1, Len(buf))
                   /\ yielded' = yielded \o SubSeq(buf, 1, k)
  /\ frame' = None
  /\ UNCHANGED <<convVars, args, stop, threadVars, timeVars, size,
                 stored, loaded, lastFrame, fatal, leftBy, failed>>

\* the encode call is Err: .expect("Can't encode frame") panics
EncodeFails ==
  /\ pc = "process"
  /\ ~ConvertFrame[size][frame].panic
  /\ log' = Append(log, EncodeCall(Millis(now - start),
                                   ConvertFrame[size][frame].yuv))
  /\ afterStop' = [afterStop EXCEPT !.encodes = CountIf(stored, @)]
  /\ fatal' = "encoder"
  /\ pc' = "panicked"
  /\ frame' = None
  /\ UNCHANGED <<convVars, args, stop, threadVars, timeVars, size, encBuf, encoded,
                 yielded, stored, loaded, lastFrame, leftBy, failed>>

\* for encoded_frame in encoded { video_track.add_frame(..) }
ForwardEncoded ==
  /\ pc = "forward" /\ encoded # <<>>
  /\ log' = Append(log, AddFrameCall(Head(encoded)))
  /\ encoded' = Tail(encoded)
  /\ UNCHANGED <<convVars, args, pc, stop, threadVars, timeVars, size, frame, encBuf,
                 yielded, histVars>>

ForwardDone ==
  /\ pc = "forward" /\ encoded = <<>>
  /\ pc' = "pace"
  /\ UNCHANGED <<convVars, args, stop, threadVars, timeVars, size, frame, codecVars, histVars>>

\* if let Some(spf) = seconds_per_frame {
\*   let dt = now.elapsed(); if dt < spf { thread::sleep(spf - dt); } }
PaceSleepsFullInterval ==
  /\ pc = "pace"
  /\ LET spf == seconds_per_frame
         dt  == clock - now
     IN  IF spf # None /\ dt < Unwrap(spf)
         THEN /\ pc' = "sleep"
              /\ wake' = clock + Unwrap(spf)
         ELSE /\ pc' = "check"
              /\ wake' = wake
  /\ UNCHANGED <<convVars, args, stop, threadVars, clock, start, now, size, frame,
                 codecVars, histVars>>

Pace ==
  /\ pc = "pace"
  /\ LET spf == seconds_per_frame
         dt  == clock - now
     IN  IF spf # None /\ dt < Unwrap(spf)
         THEN /\ pc' = "sleep"
              /\ wake' = clock + (Unwrap(spf) - dt)
         ELSE /\ pc' = "check"
              /\ wake' = wake
  /\ UNCHANGED <<convVars, args, stop, threadVars, clock, start, now, size, frame,
                 codecVars, histVars>>

\* thread::sleep returns once the duration has passed
Wake ==
  /\ pc = "sleep"
  /\ clock >= wake \/ clock = MaxClock
  /\ pc' = "check"
  /\ UNCHANGED <<convVars, args, stop, threadVars, timeVars, size, frame, codecVars, histVars>>

----------------------------------------------------------------------------
(* Draining and Finished.                                                  *)

\* vpx_encoder.finish() is Ok: `frames` holds what the encoder held back
FinishOk ==
  /\ pc = "finish"
  /\ log' = Append(log, [op |-> "finish"])
  /\ encoded' = encBuf
  /\ encBuf' = <<>>
  /\ pc' = "drain"
  /\ UNCHANGED <<convVars, args, stop, threadVars, timeVars, size, frame, yielded, histVars>>

\* .expect("Can't finish encoding") panics
FinishFails ==
  /\ pc = "finish"
  /\ log' = Append(log, [op |-> "finish"])
  /\ pc' = "panicked"
  /\ UNCHANGED <<convVars, args, stop, threadVars, timeVars, size, frame, encBuf, encoded,
                 yielded, histVars>>

\* while let Some(frame) = frames.next().expect(..) { video_track.add_frame(..) }
DrainOnlyFirst ==
  /\ pc = "drain" /\ encoded # <<>>
  /\ yielded' = Append(yielded, Head(encoded))
  /\ log' = Append(log, AddFrameCall(Head(encoded)))
  /\ encoded' = Tail(encoded)
  /\ pc' = "finalize"
  /\ UNCHANGED <<convVars, args, stop, threadVars, timeVars, size, frame, encBuf, histVars>>

DrainNext ==
  /\ pc = "drain" /\ encoded # <<>>
  /\ yielded' = Append(yielded, Head(encoded))
  /\ log' = Append(log, AddFrameCall(Head(encoded)))
  /\ encoded' = Tail(encoded)
  /\ UNCHANGED <<convVars, args, pc, stop, threadVars, timeVars, size, frame, encBuf, histVars>>

\* frames.next() is Err: .expect("Can't read frame") panics
DrainFails ==
  /\ pc = "drain"
  /\ pc' = "panicked"
  /\ UNCHANGED <<convVars, args, stop, threadVars, timeVars, size, frame, codecVars, histVars>>

\* frames.next() is Ok(None)
DrainDone ==
  /\ pc = "drain" /\ encoded = <<>>
  /\ pc' = "finalize"
  /\ UNCHANGED <<convVars, args, stop, threadVars, timeVars, size, frame, codecVars, histVars>>

\* let _ = webm.finalize(None); and main returns
Finalize ==
  /\ pc = "finalize"
  /\ log' = Append(log, [op |-> "finalize"])
  /\ pc' = "finished"
  /\ UNCHANGED <<convVars, args, stop, threadVars, timeVars, size, frame, encBuf, encoded,
                 yielded, histVars>>

----------------------------------------------------------------------------
(* The specifications of a run.                                            *)

MainStep ==
  \/ StartReturns \/ StartPanics \/ StartOk
  \/ LoopCheck \/ TimeCheck
  \/ CaptureFrame \/ CaptureWouldBlock \/ CaptureError
  \/ ProcessFrame \/ EncodeFails
  \/ ForwardEncoded \/ ForwardDone
  \/ Pace \/ Wake
  \/ FinishOk \/ FinishFails
  \/ DrainNext \/ DrainFails \/ DrainDone
  \/ Finalize

Next ==
  \/ StartReturns \/ StartPanics \/ StartOk
  \/ HotkeyRegisters \/ HotkeyRegisterFails \/ HotkeyPressed
  \/ PromptAnswered
  \/ Tick
  \/ LoopCheck \/ TimeCheck
  \/ CaptureFrame \/ CaptureWouldBlock \/ CaptureError
  \/ ProcessFrame \/ EncodeFails
  \/ ForwardEncoded \/ ForwardDone
  \/ Pace \/ Wake
  \/ FinishOk \/ FinishFails
  \/ DrainNext \/ DrainFails \/ DrainDone
  \/ Finalize

Spec == Init /\ [][Next]_vars

\* the main thread is scheduled while it can run, and time passes; the
\* observer threads may stay blocked forever
FairSpec == Spec /\ WF_vars(MainStep) /\ WF_vars(Tick)

----------------------------------------------------------------------------
(* What the converter claims speak of.                                     *)

Abs(x) == IF x < 0 THEN -x ELSE x

\* src has exactly one 4-byte pixel per (row, column)
WellFormed == BufLen(csrc) = cwidth * cheight * 4
EvenDims == cwidth % 2 = 0 /\ cheight % 2 = 0
Is420 == cfn \in {"argb_to_yuv420", "argb_to_yuv420_with_subsampling"}
Called == cstatus # "idle"
\* the call met the converter's input contract
ContractMet == WellFormed /\ (Is420 => EvenDims)

\* pixel p of src as <<R, G, B>>: bytes 2, 1 and 0 of its chunk
PixelRGB(src, p) == <<src[4 * p + 2], src[4 * p + 1], src[4 * p]>>

\* the two readings of "integer division" of a signed numerator
FloorQuot(a, b) == a \div b
TowardZeroQuot(a, b) == (IF a < 0 THEN -1 ELSE 1) * (Abs(a) \div b)

Clamp255(x) == IF x < 0 THEN 0 ELSE IF x > 255 THEN 255 ELSE x

\* the per-pixel values of the spec's matrix under a quotient Q
LumaOf(Q(_, _), px)   == Q(66 * px[1] + 129 * px[2] + 25 * px[3] + 128, 256) + 16
ChromaUOf(Q(_, _), px) == Q(-38 * px[1] - 74 * px[2] + 112 * px[3] + 128, 256) + 128
ChromaVOf(Q(_, _), px) == Q(112 * px[1] - 94 * px[2] - 18 * px[3] + 128, 256) + 128

\* the pixel index of the j-th 2x2 block's top-left pixel, blocks row-major
AnchorPixel(w, j) == 2 * (j \div (w \div 2)) * w + 2 * (j % (w \div 2))

\* the mean of the block's four per-pixel values, as the averaged variant takes it
BlockMean(C(_), w, src, a) ==
  TowardZeroQuot(C(PixelRGB(src, a)) + C(PixelRGB(src, a + 1))
                 + C(PixelRGB(src, a + w)) + C(PixelRGB(src, a + w + 1)), 4)

\* the sample a converter owes at index i of its output, under quotient Q
ExpectedAt(Q(_, _), fn, w, h, src, i) ==
  LET fs == w * h
      U(px) == ChromaUOf(Q, px)
      V(px) == ChromaVOf(Q, px)
  IN  IF i < fs THEN Clamp255(LumaOf(Q, PixelRGB(src, i)))
      ELSE IF fn = "argb_to_yuv444"
      THEN IF i < 2 * fs THEN Clamp255(U(PixelRGB(src, i - fs)))
                         ELSE Clamp255(V(PixelRGB(src, i - 2 * fs)))
      ELSE IF fn = "argb_to_yuv420"
      THEN IF i < fs + fs \div 4
           THEN Clamp255(U(PixelRGB(src, AnchorPixel(w, i - fs))))
           ELSE Clamp255(V(PixelRGB(src, AnchorPixel(w, i - fs - fs \div 4))))
      ELSE IF i < fs + fs \div 4
           THEN Clamp255(BlockMean(U, w, src, AnchorPixel(w, i - fs)))
           ELSE Clamp255(BlockMean(V, w, src, AnchorPixel(w, i - fs - fs \div 4)))

\* the value a converter computes for index i before its clamp
RawAt(fn, w, h, src, i) ==
  LET fs == w * h
      Q(a, b) == TowardZeroQuot(a, b)
      U(px) == ChromaUOf(Q, px)
      V(px) == ChromaVOf(Q, px)
  IN  IF i < fs THEN LumaOf(Q, PixelRGB(src, i))
      ELSE IF fn = "argb_to_yuv444"
      THEN IF i < 2 * fs THEN U(PixelRGB(src, i - fs))
                         ELSE V(PixelRGB(src, i - 2 * fs))
      ELSE IF fn = "argb_to_yuv420"
      THEN IF i < fs + fs \div 4
           THEN U(PixelRGB(src, AnchorPixel(w, i - fs)))
           ELSE V(PixelRGB(src, AnchorPixel(w, i - fs - fs \div 4)))
      ELSE IF i < fs + fs \div 4
           THEN BlockMean(U, w, src, AnchorPixel(w, i - fs))
           ELSE BlockMean(V, w, src, AnchorPixel(w, i - fs - fs \div 4))

\* every 2x2 block of the frame is of a single colour
BlockUniform(w, h, src) ==
  \A r \in 0 .. h - 1 : \A c \in 0 .. w - 1 :
    PixelRGB(src, r * w + c) = PixelRGB(src, (r - (r % 2)) * w + (c - (c % 2)))

\* what converter fn returns on the call's arguments: the call's own buffer
\* for the converter that was called
OutputOf(fn) ==
  IF fn = cfn THEN cyuv
  ELSE IF fn = "argb_to_yuv420" THEN argb_to_yuv420(cwidth, cheight, csrc).yuv
  ELSE IF fn = "argb_to_yuv444" THEN argb_to_yuv444(cwidth, cheight, csrc).yuv
  ELSE argb_to_yuv420_with_subsampling(cwidth, cheight, csrc).yuv

\* every pixel of src has the colour <<R, G, B>>
FrameOf(rgb) ==
  \A p \in 0 .. (BufLen(csrc) \div 4) - 1 : PixelRGB(csrc, p) = rgb
\* every pixel of src has R = G = B = k
GrayFrame(k) == \A i \in DOMAIN csrc : i % 4 # 3 => csrc[i] = k
\* every pixel of src is pure red
RedFrame ==
  \A i \in DOMAIN csrc : i % 4 # 3 => csrc[i] = (IF i % 4 = 2 THEN 255 ELSE 0)

----------------------------------------------------------------------------
(* What the claims about a run speak of.                                   *)

\* the add_frame calls that forwarding a sequence of packets makes
Forwarding(pkts) == [i \in 1 .. Len(pkts) |-> AddFrameCall(pkts[i])]
\* main is in the loop body, between its load of the flag and the next one
InIteration == pc \in {"time", "capture", "process", "forward", "pace", "sleep"}
Finalized == \E i \in 1 .. Len(log) : log[i].op = "finalize"
\* the panic came out of finish() or frames.next(), not out of the loop
PanickedInDrain ==
  pc = "panicked" /\ \E i \in 1 .. Len(log) : log[i].op = "finish"

----------------------------------------------------------------------------
(* C1: the stop flag starts false; a load returns true only after some     *)
(* thread has stored true; every load of the loop that follows a store     *)
(* returns true; and no step sets the flag back to false, so a repeated    *)
(* store changes nothing.                                                  *)
C1_StopFlag ==
  /\ []((~stored => ~stop) /\ (loaded = "true" => stored))
  /\ [][(stored /\ pc = "check" /\ pc' # pc) => loaded' = "true"]_vars
  /\ [][stop => stop']_vars

C1_Witness ==
  /\ stored /\ stop
  /\ prompt = "done" /\ hotkey = "listening"
  /\ loaded = "true"

----------------------------------------------------------------------------
(* C2: on a fatal failure during Running, a frame-source error other than  *)
(* would-block or an encoder failure while encoding a frame, no further    *)
(* frame is captured and, unless the drain itself fails, main has called   *)
(* finish, forwarded every packet and finalized the muxer when it stops.   *)
(* Violated: a failed encode call panics in .expect("Can't encode frame"), *)
(* with neither finish nor finalize.                                       *)
C2_FatalFailureStillDrains ==
  fatal # "none" =>
    /\ ~InIteration /\ pc # "check"
    /\ (pc \in {"finished", "panicked"} /\ ~PanickedInDrain) =>
         /\ pc = "finished"
         /\ Len(Calls("finish")) = 1
         /\ Len(Calls("finalize")) = 1
         /\ encBuf = <<>> /\ encoded = <<>>

----------------------------------------------------------------------------
(* C3: when a run has reached Finished, the muxer has received exactly the *)
(* packets the encoder returned, those of the loop and then those after    *)
(* finish(), each once and in the order returned, and the encoder holds    *)
(* none back; finalize is the last call of the run, made once, so no       *)
(* encoder or muxer call ever follows it.                                  *)
C3_MuxerGetsEveryPacket ==
  /\ \A i \in 1 .. Len(log) : log[i].op = "finalize" => i = Len(log)
  /\ pc = "finished" =>
       /\ Len(log) > 0 /\ log[Len(log)].op = "finalize"
       /\ Calls("add_frame") = Forwarding(yielded)
       /\ \A i \in 1 .. Len(yielded) : yielded[i].id = i
       /\ Len(yielded) = Len(Calls("encode"))
       /\ encBuf = <<>> /\ encoded = <<>>
       /\ Len(Calls("finish")) = 1
       /\ \A i \in 1 .. Len(log) : \A j \in 1 .. Len(log) :
            (log[i].op = "finish" /\ log[j].op = "encode") => j < i

C3_Witness ==
  /\ pc = "finished"
  /\ Len(yielded) = 2
  /\ \E i \in 1 .. Len(log) : \E j \in 1 .. Len(log) : \E k \in 1 .. Len(log) :
       /\ i < j /\ j < k
       /\ log[i].op = "add_frame" /\ log[j].op = "finish" /\ log[k].op = "add_frame"

----------------------------------------------------------------------------
(* C4: a store of the stop flag changes nothing of the main thread; the    *)
(* iteration in progress goes on, its sleep is not cut short; after the    *)
(* first store at most one frame is requested and at most one is submitted *)
(* to the encoder; and a loop check that follows the store leaves the loop *)
(* without requesting a frame.                                             *)
C4_StopOnlyAtLoopCheck ==
  /\ [](afterStop.requests <= 1 /\ afterStop.encodes <= 1)
  /\ [][(stop' # stop) => UNCHANGED <<pc, timeVars, frame, codecVars>>]_vars
  /\ [][(stored /\ pc = "sleep" /\ pc' # pc) =>
          (pc' = "check" /\ (clock >= wake \/ clock = MaxClock))]_vars
  /\ [][(stored /\ pc = "check" /\ pc' # pc) => pc' = "finish"]_vars

C4_Witness ==
  /\ stored
  /\ pc = "sleep"
  /\ afterStop.requests = 1
  /\ afterStop.encodes = 1

----------------------------------------------------------------------------
(* C5: once a thread has stored the stop flag, the main thread, scheduled  *)
(* fairly, reaches Finished with the muxer finalized, whatever the         *)
(* observer threads do.  Violated: a failed encoder call (encode, finish   *)
(* or next) ends the run in a panic, short of Finished.                    *)
C5_StopLeadsToFinished == stored ~> (pc = "finished" /\ Finalized)

\* what does hold under FairSpec: after a store the main thread ends, in
\* Finished or in a panic, without waiting for an observer thread
StopLeadsToHalt == stored ~> (pc \in {"finished", "panicked"})

----------------------------------------------------------------------------
(* C7: when capturer.frame() reports would-block the step changes nothing  *)
(* but main's position: no conversion, no encoder or muxer call, the stop  *)
(* flag as it was, and main goes on to the pacing step; the loop is never  *)
(* left because of it, and the next iteration, unless the flag or the      *)
(* maximum duration ends the loop first, requests a frame again.           *)
C7_WouldBlockIsNoOp ==
  /\ [][(pc = "capture" /\ pc' # pc /\ lastFrame' = "would_block") =>
          (pc' = "pace" /\ UNCHANGED <<stop, frame, codecVars, fatal, leftBy>>)]_vars
  /\ [](lastFrame = "would_block" =>
          (fatal = "none" /\ leftBy \in {"none", "stop", "time"}))
  /\ [][(lastFrame = "would_block" /\ pc = "time" /\ pc' # pc) =>
          (pc' = "capture" \/ (pc' = "finish" /\ leftBy' = "time"))]_vars

C7_Witness ==
  /\ lastFrame = "would_block"
  /\ pc = "capture"
  /\ ~stop
  /\ Len(log) = 0

----------------------------------------------------------------------------
(* C6: for each of the three converters a call whose src length differs    *)
(* from width*height*4, and for the two 4:2:0 converters a call with odd   *)
(* width or height, panics and returns no buffer.  The converters check    *)
(* nothing, so this is violated: argb_to_yuv444(2, 2, 12 bytes) returns a  *)
(* buffer whose samples of the missing pixel are zero.                     *)
C6_ContractViolationPanics ==
  (Called /\ ~ContractMet) => cstatus = "panicked"

----------------------------------------------------------------------------
(* C8 as stated: on a gray frame (R = G = B = k) every converter returns   *)
(* U = V = 128 and every Y within 1 of clamp(k + 16).  Violated: k = 235   *)
(* gives Y = 218, not 251.                                                 *)
C8_GrayLumaIsKPlus16 ==
  \A k \in Grays :
    (cstatus = "returned" /\ ContractMet /\ BufLen(csrc) > 0 /\ GrayFrame(k)) =>
      \A i \in DOMAIN cyuv :
        IF i < cwidth * cheight THEN Abs(cyuv[i] - Clamp255(k + 16)) <= 1
                                ELSE cyuv[i] = 128

(* C8 amended: on a gray frame (R = G = B = k, k in 0..255) every          *)
(* converter returns U = V = 128 exactly and Y = (220k + 128) div 256 + 16, *)
(* the studio-range luma: 16 for k = 0, 218 for k = 235, 235 for k = 255.  *)
C8_GrayStudioRange ==
  \A k \in Grays :
    (cstatus = "returned" /\ ContractMet /\ BufLen(csrc) > 0 /\ GrayFrame(k)) =>
      \A i \in DOMAIN cyuv :
        IF i < cwidth * cheight THEN cyuv[i] = ((220 * k + 128) \div 256) + 16
                                ELSE cyuv[i] = 128

C8_Witness ==
  /\ cfn = "argb_to_yuv420_with_subsampling"
  /\ cstatus = "returned"
  /\ ContractMet
  /\ BufLen(csrc) = 16
  /\ GrayFrame(235)
  /\ cyuv[0] = 218
  /\ cyuv[4] = 128
  /\ cyuv[5] = 128

----------------------------------------------------------------------------
(* C9 as stated: the division by 256 in the Y, U and V formulas of the     *)
(* three converters rounds toward negative infinity, so every returned     *)
(* sample is the one the floor quotient gives (the U term of pure red is   *)
(* -38, U = 90).  Violated: Rust's `/` gives -37, U = 91.                  *)
C9_DivisionFloors ==
  (cstatus = "returned" /\ ContractMet) =>
    \A i \in DOMAIN cyuv :
      cyuv[i] = ExpectedAt(FloorQuot, cfn, cwidth, cheight, csrc, i)

(* C9 amended: the division by 256 is applied to a signed intermediate and *)
(* rounds toward zero, so every returned sample is the one the             *)
(* toward-zero quotient gives; the U term of pure red (255, 0, 0) is       *)
(* -9562 / 256 = -37 and its U sample is 91.                               *)
C9_DivisionTruncatesTowardZero ==
  (cstatus = "returned" /\ ContractMet) =>
    /\ \A i \in DOMAIN cyuv :
         cyuv[i] = ExpectedAt(TowardZeroQuot, cfn, cwidth, cheight, csrc, i)
    /\ (RedFrame /\ BufLen(csrc) > 0) => cyuv[cwidth * cheight] = -37 + 128

C9_Witness ==
  /\ cfn = "argb_to_yuv444"
  /\ cstatus = "returned"
  /\ ContractMet
  /\ BufLen(csrc) = 16
  /\ RedFrame
  /\ cyuv[4] = 91
  /\ FloorQuot(-9562, 256) = -38

----------------------------------------------------------------------------
(* C10: for even width and height and src of width*height*4 bytes,         *)
(* argb_to_yuv420 returns, having stored into each index of the            *)
(* width*height*3/2 bytes exactly once: Y of pixel (r, c) at r*w + c, and  *)
(* for even r and c its U at w*h + (r/2)*(w/2) + c/2 and its V a further   *)
(* w*h/4 on, each computed from the B, G, R bytes alone.  A 4x4 all-red    *)
(* frame gives 24 bytes: 16 equal Y, then 4 equal U, then 4 equal V.       *)
C10_Yuv420Layout ==
  (cfn = "argb_to_yuv420" /\ WellFormed /\ EvenDims) =>
    LET w == cwidth
        h == cheight
    IN  /\ cstatus = "returned"
        /\ DOMAIN cyuv = 0 .. ((w * h * 3) \div 2) - 1
        /\ \A i \in DOMAIN cwrites : cwrites[i] = 1
        /\ \A r \in 0 .. h - 1 : \A c \in 0 .. w - 1 :
             LET px == PixelRGB(csrc, r * w + c)
             IN  /\ cyuv[r * w + c] = Clamp255(LumaOf(TowardZeroQuot, px))
                 /\ (r % 2 = 0 /\ c % 2 = 0) =>
                      /\ cyuv[w * h + (r \div 2) * (w \div 2) + c \div 2]
                           = Clamp255(ChromaUOf(TowardZeroQuot, px))
                      /\ cyuv[w * h + (w * h) \div 4
                              + (r \div 2) * (w \div 2) + c \div 2]
                           = Clamp255(ChromaVOf(TowardZeroQuot, px))
        /\ (w = 4 /\ h = 4 /\ RedFrame) =>
             /\ BufLen(cyuv) = 24
             /\ \A i \in 0 .. 15 : cyuv[i] = cyuv[0]
             /\ \A i \in 16 .. 19 : cyuv[i] = cyuv[16]
             /\ \A i \in 20 .. 23 : cyuv[i] = cyuv[20]

C10_Witness ==
  /\ cfn = "argb_to_yuv420"
  /\ cstatus = "returned"
  /\ cwidth = 4 /\ cheight = 4
  /\ WellFormed
  /\ RedFrame
  /\ cyuv[0] = 82 /\ cyuv[16] = 91 /\ cyuv[20] = 240

----------------------------------------------------------------------------
(* C11: for even width and height and src of width*height*4 bytes,         *)
(* argb_to_yuv420_with_subsampling returns the per-pixel luma of every     *)
(* pixel in its Y plane, and for each 2x2 block anchored at even (r, c),   *)
(* in row-major anchor order, a U sample that is the clamp of the          *)
(* truncated quotient by 4 of the sum of the four unclamped per-pixel U    *)
(* values of that block's pixels, and likewise a V sample.                 *)
C11_AveragedChroma ==
  (cfn = "argb_to_yuv420_with_subsampling" /\ WellFormed /\ EvenDims) =>
    LET w  == cwidth
        h  == cheight
        fs == w * h
        U(p) == ChromaUOf(TowardZeroQuot, PixelRGB(csrc, p))
        V(p) == ChromaVOf(TowardZeroQuot, PixelRGB(csrc, p))
    IN  /\ cstatus = "returned"
        /\ \A r \in 0 .. h - 1 : \A c \in 0 .. w - 1 :
             LET a == r * w + c
                 j == (r \div 2) * (w \div 2) + c \div 2
             IN  /\ cyuv[a] = Clamp255(LumaOf(TowardZeroQuot, PixelRGB(csrc, a)))
                 /\ (r % 2 = 0 /\ c % 2 = 0) =>
                      /\ cyuv[fs + j] = Clamp255(TowardZeroQuot(
                           U(a) + U(a + 1) + U(a + w) + U(a + w + 1), 4))
                      /\ cyuv[fs + fs \div 4 + j] = Clamp255(TowardZeroQuot(
                           V(a) + V(a + 1) + V(a + w) + V(a + w + 1), 4))

\* a 2x2 frame of red, black, white and green: U = (91 + 128 + 128 + 55) / 4
\* and V = (240 + 128 + 128 + 35) / 4, neither the anchor's own value
C11_Witness ==
  /\ cfn = "argb_to_yuv420_with_subsampling"
  /\ cstatus = "returned"
  /\ cwidth = 2 /\ cheight = 2
  /\ WellFormed
  /\ PixelRGB(csrc, 0) = <<255, 0, 0>>
  /\ PixelRGB(csrc, 1) = <<0, 0, 0>>
  /\ PixelRGB(csrc, 2) = <<255, 255, 255>>
  /\ PixelRGB(csrc, 3) = <<0, 255, 0>>
  /\ cyuv = [i \in 0 .. 5 |-> <<82, 16, 235, 144, 100, 132>>[i + 1]]

----------------------------------------------------------------------------
(* C12: on src of width*height*4 bytes, argb_to_yuv420 and                 *)
(* argb_to_yuv420_with_subsampling return, for even width and height, a    *)
(* buffer of exactly width*height*3/2 bytes, and argb_to_yuv444 returns,   *)
(* for every width and height, exactly width*height*3 bytes; the buffer is *)
(* the call's own vec![0; n], every byte of it stored by the call, and src *)
(* is left as it was.                                                      *)
C12_BufferLengths ==
  /\ []((Called /\ ContractMet) =>
          LET n == IF Is420 THEN (cwidth * cheight * 3) \div 2
                            ELSE cwidth * cheight * 3
          IN  /\ cstatus = "returned"
              /\ BufLen(cyuv) = n
              /\ DOMAIN cyuv = 0 .. n - 1
              /\ DOMAIN cwrites = DOMAIN cyuv
              /\ \A i \in DOMAIN cwrites : cwrites[i] >= 1)
  /\ [][csrc' = csrc /\ cwidth' = cwidth /\ cheight' = cheight]_convVars

C12_Witness ==
  /\ cfn = "argb_to_yuv420_with_subsampling"
  /\ cstatus = "returned"
  /\ cwidth = 4 /\ cheight = 2
  /\ WellFormed
  /\ BufLen(cyuv) = 12

----------------------------------------------------------------------------
(* C15: for every pixel with R, G, B in 0..255 the per-pixel formulas give *)
(* Y in 16..235 and U, V in 16..240 before the clamp, so every sample a    *)
(* converter returns is the unclamped value (for the averaged variant the  *)
(* unclamped mean of unclamped per-pixel values); pure black gives Y = 16, *)
(* U = V = 128 and pure white gives Y = 235, U = V = 128.                  *)
C15_ClampNeverActs ==
  (cstatus = "returned" /\ ContractMet) =>
    /\ \A p \in 0 .. cwidth * cheight - 1 :
         LET px == PixelRGB(csrc, p)
         IN  /\ LumaOf(TowardZeroQuot, px) \in 16 .. 235
             /\ ChromaUOf(TowardZeroQuot, px) \in 16 .. 240
             /\ ChromaVOf(TowardZeroQuot, px) \in 16 .. 240
    /\ \A i \in DOMAIN cyuv :
         /\ cyuv[i] = RawAt(cfn, cwidth, cheight, csrc, i)
         /\ cyuv[i] \in (IF i < cwidth * cheight THEN 16 .. 235 ELSE 16 .. 240)
    /\ FrameOf(<<0, 0, 0>>) =>
         \A i \in DOMAIN cyuv :
           cyuv[i] = (IF i < cwidth * cheight THEN 16 ELSE 128)
    /\ FrameOf(<<255, 255, 255>>) =>
         \A i \in DOMAIN cyuv :
           cyuv[i] = (IF i < cwidth * cheight THEN 235 ELSE 128)

\* the extremes are reached: white has the largest Y, blue the largest U
C15_Witness ==
  /\ cfn = "argb_to_yuv444"
  /\ cstatus = "returned"
  /\ cwidth = 2 /\ cheight = 2
  /\ WellFormed
  /\ FrameOf(<<0, 0, 255>>)
  /\ cyuv[4] = 240
  /\ LumaOf(TowardZeroQuot, <<255, 255, 255>>) = 235

----------------------------------------------------------------------------
(* C19: for even width and height and src of width*height*4 bytes the      *)
(* three converters agree where they overlap: their Y planes are           *)
(* byte-identical; each U and V sample of argb_to_yuv420 is the            *)
(* argb_to_yuv444 U and V sample of its even (r, c) anchor; and on a frame *)
(* whose 2x2 blocks are each of one colour                                 *)
(* argb_to_yuv420_with_subsampling returns the bytes of argb_to_yuv420.    *)
C19_ConvertersAgree ==
  (cstatus = "returned" /\ WellFormed /\ EvenDims) =>
    LET w    == cwidth
        h    == cheight
        fs   == w * h
        o420 == OutputOf("argb_to_yuv420")
        osub == OutputOf("argb_to_yuv420_with_subsampling")
        o444 == OutputOf("argb_to_yuv444")
    IN  /\ \A i \in 0 .. fs - 1 : o420[i] = o444[i] /\ osub[i] = o444[i]
        /\ \A r \in 0 .. h - 1 : \A c \in 0 .. w - 1 :
             (r % 2 = 0 /\ c % 2 = 0) =>
               LET j == (r \div 2) * (w \div 2) + c \div 2
               IN  /\ o420[fs + j] = o444[fs + r * w + c]
                   /\ o420[fs + fs \div 4 + j] = o444[2 * fs + r * w + c]
        /\ BlockUniform(w, h, csrc) => osub = o420

\* a 4x4 frame of four blocks of four colours, converted by the averaged
\* variant to the bytes the nearest-sample variant gives
C19_Witness ==
  /\ cfn = "argb_to_yuv420_with_subsampling"
  /\ cstatus = "returned"
  /\ cwidth = 4 /\ cheight = 4
  /\ WellFormed
  /\ BlockUniform(4, 4, csrc)
  /\ Cardinality({ PixelRGB(csrc, p) : p \in {0, 2, 8, 10} }) = 4
  /\ cyuv = argb_to_yuv420(4, 4, csrc).yuv

----------------------------------------------------------------------------
(* C13: the check at the start of an iteration leaves the loop on time if  *)
(* and only if a maximum duration was given and the time since `start` is  *)
(* strictly greater: with no maximum the loop is never left on time, at a  *)
(* time equal to the bound the iteration runs, once the time exceeds the   *)
(* bound it exceeds it ever after, and no frame is requested in an         *)
(* iteration whose `now` is past the bound.                                *)
OverTime == max_time # None /\ clock - start > Unwrap(max_time)

C13_TimeStop ==
  /\ [][(pc = "time" /\ pc' # pc) =>
          /\ now' = clock
          /\ IF OverTime THEN pc' = "finish" /\ leftBy' = "time"
                         ELSE pc' = "capture" /\ leftBy' = leftBy]_vars
  /\ [](leftBy = "time" => max_time # None)
  /\ [][clock' >= clock /\ (OverTime => OverTime')]_vars
  /\ [](pc \in {"capture", "process", "forward"} =>
          (max_time = None \/ now - start <= Unwrap(max_time)))

\* an iteration that began when the elapsed time equalled the bound captures
C13_Witness ==
  /\ max_time # None
  /\ pc = "process"
  /\ now - start = Unwrap(max_time)
  /\ lastFrame = "frame"

----------------------------------------------------------------------------
(* C14: when main cannot acquire a resource at start-up (no display, the   *)
(* capturer, the output file or the user's refusal to overwrite it, the    *)
(* muxer, the encoder) it ends there: no observer thread is spawned, the   *)
(* flag is never stored or loaded, no frame is requested, and the encoder  *)
(* and the muxer get no call; nothing happens afterwards.                  *)
C14_FailedStartNeverRuns ==
  /\ [](failed # "none" =>
          /\ pc \in {"exited", "panicked"}
          /\ hotkey = "unspawned" /\ prompt = "unspawned"
          /\ ~stored /\ loaded = "none"
          /\ lastFrame = "none" /\ frame = None
          /\ log = <<>> /\ yielded = <<>>)
  /\ [][failed # "none" => UNCHANGED vars]_vars
  /\ [](pc \notin {"start", "exited"} /\ failed = "none" => hotkey # "unspawned")

C14_Witness ==
  /\ failed = "encoder"
  /\ pc = "panicked"
  /\ hotkey = "unspawned"
  /\ log = <<>>

----------------------------------------------------------------------------
(* C16: every encode call carries the tag of its buffer's layout: the      *)
(* 4:4:4 tag goes only with a buffer of width*height*3 bytes, and a        *)
(* 4:2:0 buffer of width*height*3/2 bytes goes only with the 4:2:0 tag.    *)
(* Violated: process_frame converts with argb_to_yuv420 and passes         *)
(* VPX_IMG_FMT_I444.                                                       *)
C16_TagMatchesLayout ==
  \A i \in 1 .. Len(log) :
    log[i].op = "encode" =>
      /\ log[i].fmt = "I444" => log[i].len = size[1] * size[2] * 3
      /\ log[i].len = (size[1] * size[2] * 3) \div 2 => log[i].fmt = "I420"

----------------------------------------------------------------------------
(* C17: the pts of an encode call is the whole milliseconds from `start`   *)
(* to the iteration's `now`, so the pts of successive encode calls never   *)
(* decrease; every add_frame, in the loop and in the drain, passes its     *)
(* packet's pts times 1,000,000, and as the encoder returns packets in pts *)
(* order the muxer's timestamps never decrease.                            *)
C17_Timestamps ==
  /\ [][(pc = "process" /\ log' # log) =>
          (log'[Len(log')].op = "encode"
           /\ log'[Len(log')].pts = (now - start) \div TicksPerMs)]_vars
  /\ [](\A i \in 1 .. Len(Calls("encode")) : \A j \in i .. Len(Calls("encode")) :
          Calls("encode")[i].pts <= Calls("encode")[j].pts)
  /\ [](\A i \in 1 .. Len(Calls("add_frame")) :
          /\ i <= Len(yielded)
          /\ Calls("add_frame")[i].id = yielded[i].id
          /\ Calls("add_frame")[i].ts = yielded[i].pts * 1000000)
  /\ [](\A i \in 1 .. Len(Calls("add_frame")) : \A j \in i .. Len(Calls("add_frame")) :
          Calls("add_frame")[i].ts <= Calls("add_frame")[j].ts)

\* a packet forwarded in the loop and a later one forwarded in the drain
C17_Witness ==
  /\ pc = "finished"
  /\ \E i \in 1 .. Len(log) : \E j \in 1 .. Len(log) : \E k \in 1 .. Len(log) :
       /\ i < j /\ j < k
       /\ log[i].op = "add_frame" /\ log[j].op = "finish" /\ log[k].op = "add_frame"
       /\ log[i].ts = 0
       /\ log[k].ts = 2000000

----------------------------------------------------------------------------
(* C18: at the end of an iteration the loop sleeps exactly the frame       *)
(* interval minus the time since the iteration's `now` if a frame rate was *)
(* given and that time is strictly less than the interval, and does not    *)
(* sleep otherwise; the sleep lasts at least that long, so with a frame    *)
(* rate two successive `now` are at least the interval apart; and the      *)
(* sleep is computed from this iteration alone, an overrun of an earlier   *)
(* one does not shorten it.                                                *)
C18_Pacing ==
  /\ [][(pc = "pace" /\ pc' # pc) =>
          IF seconds_per_frame # None /\ clock - now < Unwrap(seconds_per_frame)
          THEN pc' = "sleep" /\ wake' = now + Unwrap(seconds_per_frame)
          ELSE pc' = "check" /\ wake' = wake]_vars
  /\ [][(pc = "sleep" /\ pc' # pc) =>
          (pc' = "check" /\ (clock >= wake \/ clock = MaxClock))]_vars
  /\ [][(pc = "time" /\ pc' # pc /\ lastFrame # "none"
         /\ seconds_per_frame # None) =>
          (now' - now >= Unwrap(seconds_per_frame) \/ clock = MaxClock)]_vars

\* after an iteration that took a tick and slept the rest of the interval,
\* the next one begins exactly one interval after the first
C18_Witness ==
  /\ args.fps = Some(1)
  /\ seconds_per_frame = Some(TicksPerSec)
  /\ pc = "capture"
  /\ lastFrame = "frame"
  /\ Len(Calls("encode")) = 1
  /\ wake = start + TicksPerSec
  /\ now = wake
  /\ clock < MaxClock

====
